---- MODULE Spec2Model ----
(***************************************************************************)
(* Model of the Cloudflare Worker in worker/index.js: the Linear API proxy *)
(* behind the dashboard's drag-and-drop.  One worker isolate serves        *)
(* several requests; every `await` of a handler is a point where another   *)
(* request's handler may run, and the module-level stateCache is shared by *)
(* all of them.                                                            *)
(*                                                                         *)
(* The upstream GraphQL API is the environment: each upstream call is      *)
(* answered by a network failure, a non-2xx response, a response with an   *)
(* error list, or a response with data of the shape the query asks for.    *)
(***************************************************************************)
EXTENDS Integers, Sequences, FiniteSets, TLC

\* ------------------------------------------------------------------ bounds
\* Requests the isolate handles in one behaviour.
MaxRequests == 2
\* Longest workflowStates.nodes list the upstream returns.
MaxStates == 1
\* Longest list the resolver is run on by itself (IndexSpec).
MaxNodes == 3

\* The handler activations that can be in flight at once: a slot holds one
\* request from its arrival until the next request takes the slot over.
Slots == {1, 2}

\* ------------------------------------------------------- JavaScript values
\* The value of a missing property or of a variable not yet assigned.
Undefined == "undefined"
\* The empty string: a value that is supplied but falsy.
Empty == ""
\* A member every plain object inherits from Object.prototype.
ProtoFn == "[Function]"
\* Property names found on Object.prototype.
ProtoNames == {"constructor"}

\* JavaScript truthiness, as used by `!x` and `if (x)`.
Truthy(v) == v \notin {Undefined, Empty}

\* ------------------------------------------------------------------ inputs
Methods == {"GET", "POST", "OPTIONS"}
Paths == {"/update", "/health", "/other"}
ApiKeys == {Undefined, "lin_api_key"}

StatusNames == {"Todo", "Done"}
StatusIds == {"s1", "s2"}
IssueIds == {"i1", "i2"}

\* Request bodies: text that is not JSON, the JSON value null, a JSON value
\* that is no object (a number, a string, a boolean), or a JSON object with
\* some of the four fields handleUpdate reads.
UnreadBody == [kind |-> "unread"]
MalformedBody == [kind |-> "malformed"]
NullBody == [kind |-> "null"]
\* Destructuring a number, string or boolean throws nothing and leaves every
\* field undefined.
PrimitiveBody ==
  [kind |-> "primitive", issueId |-> Undefined, targetState |-> Undefined,
   targetStateId |-> Undefined, order |-> Undefined]
ObjectBodies ==
  [kind : {"object"},
   issueId : {Undefined, "i1"},
   targetState : {Undefined, "Todo"} \cup ProtoNames,
   targetStateId : {Undefined, Empty, "s9"},
   order : {Undefined, "[i2,i1]"}]
Bodies == {MalformedBody, NullBody, PrimitiveBody} \cup ObjectBodies

\* order.length for the order values of ObjectBodies.
OrderLength(order) == IF order = "[i2,i1]" THEN 2 ELSE 0

\* ------------------------------------------------------ upstream responses
RECURSIVE SeqsUpTo(_, _)
SeqsUpTo(S, n) ==
  IF n = 0 THEN {<<>>}
  ELSE LET shorter == SeqsUpTo(S, n - 1)
       IN shorter \cup {Append(s, x) : s \in {t \in shorter : Len(t) = n - 1}, x \in S}

\* One workflow state as the query selects it: { id, name }.
StatusNodes == [id : StatusIds, name : StatusNames]
StatusLists == SeqsUpTo(StatusNodes, MaxStates)
IndexLists == SeqsUpTo(StatusNodes, MaxNodes)

\* fetch() rejected: no HTTP response at all.
NetFail == [kind |-> "netfail"]
\* A response whose status is not 2xx.
HttpFail == [kind |-> "response", ok |-> FALSE, status |-> 500]
\* A 2xx response whose JSON carries an `errors` list.
UpstreamErrors == "[{message}]"
ErrorsResp == [kind |-> "response", ok |-> TRUE, status |-> 200, errors |-> UpstreamErrors]
\* A 2xx response without errors, carrying `data`.
DataResp(d) == [kind |-> "response", ok |-> TRUE, status |-> 200, errors |-> Undefined, data |-> d]

ListResponses == {NetFail, HttpFail, ErrorsResp} \cup {DataResp(l) : l \in StatusLists}

\* data.issueUpdate: { success, issue { id ... } }.
IssueUpdates == [success : BOOLEAN, issue : [id : IssueIds]]
MutationResponses == {NetFail, HttpFail, ErrorsResp} \cup {DataResp(u) : u \in IssueUpdates}

\* --------------------------------------------------------------- responses
corsHeaders ==
  {<<"Access-Control-Allow-Origin", "*">>,
   <<"Access-Control-Allow-Methods", "GET, POST, OPTIONS">>,
   <<"Access-Control-Allow-Headers", "Content-Type">>}
\* { ...corsHeaders, 'Content-Type': 'application/json' }
JsonHeaders == corsHeaders \cup {<<"Content-Type", "application/json">>}

NoContent == [kind |-> "null"]
Text(s) == [kind |-> "text", text |-> s]
\* JSON.stringify(obj) as a response body.
Json(obj) == [kind |-> "json", json |-> obj]

Response(status, headers, body) == [status |-> status, headers |-> headers, body |-> body]

\* Error messages, as sequences of their parts.
MsgNotConfigured == <<"LINEAR_API_KEY not configured">>
MsgMissing == <<"Missing issueId or targetState">>
MsgStateNotFound(name) == <<"State \"", name, "\" not found">>
MsgApiError(status) == <<"Linear API error: ", ToString(status)>>
MsgGraphQLError(errors) == <<"Linear GraphQL error: ", errors>>
MsgNetwork == <<"fetch failed">>
MsgSyntaxError == <<"Unexpected token in JSON">>
MsgTypeError == <<"Cannot destructure property 'issueId' of 'body' as it is null.">>

\* ------------------------------------------------------------------- state
VARIABLES
  apiKey,      \* env.LINEAR_API_KEY
  stateCache,  \* the module-level cache: null, or the name -> id object
  req,         \* per slot: the request's position, inputs, locals, calls, responses
  arrived,     \* number of requests that have arrived so far
  nodes,       \* IndexSpec: the data.workflowStates.nodes list to index
  resolved,    \* IndexSpec: the last name looked up and what it gave
  whole        \* history: what the status list last accepted since the cache
               \* was reset maps every one of its names to

vars == <<apiKey, stateCache, req, arrived, nodes, resolved, whole>>

\* stateCache = null
NullCache == [null |-> TRUE, props |-> [n \in {} |-> Undefined]]
\* stateCache = an object with the own properties props
CacheOf(props) == [null |-> FALSE, props |-> props]

\* handleUpdate's locals before they are assigned.
NoMapping == NullCache
NoResult == [kind |-> "none"]

NotResolved == [name |-> Undefined, id |-> Undefined]

IdleReq ==
  [pc |-> "idle", method |-> Undefined, path |-> Undefined, body |-> UnreadBody,
   stateMapping |-> NoMapping, stateId |-> Undefined, result |-> NoResult,
   orderLogged |-> FALSE,
   calls |-> <<>>, replies |-> <<>>, responses |-> <<>>]

Init ==
  /\ apiKey \in ApiKeys
  /\ stateCache = NullCache
  /\ req = [r \in Slots |-> IdleReq]
  /\ arrived = 0
  /\ nodes = <<>>
  /\ resolved = NotResolved
  /\ whole = NullCache

\* ------------------------------------------------------------ the resolver
\* Variant: a name already in the index keeps its first id.
SetProp_KeepFirst(props, name, id) ==
  [n \in DOMAIN props \cup {name} |-> IF n \in DOMAIN props THEN props[n] ELSE id]

\* stateCache[state.name] = state.id
SetProp(props, name, id) ==
  [n \in DOMAIN props \cup {name} |-> IF n = name THEN id ELSE props[n]]

\* states.forEach(state => { stateCache[state.name] = state.id }), from props
RECURSIVE ForEachState(_, _)
ForEachState(states, props) ==
  IF states = <<>> THEN props
  ELSE ForEachState(Tail(states), SetProp(props, Head(states).name, Head(states).id))

\* stateCache = {}; states.forEach(...)
BuildIndex(states) == ForEachState(states, [n \in {} |-> Undefined])

\* stateMapping[targetState]: an own property, else what the object inherits
\* from Object.prototype, else undefined.
Lookup(props, name) ==
  IF name \in DOMAIN props THEN props[name]
  ELSE IF name \in ProtoNames THEN ProtoFn
  ELSE Undefined

\* ---------------------------------------------------------- upstream calls
\* The body getStateMapping posts.
ListCall == [op |-> "workflowStates"]

\* The body updateIssueState posts: JSON.stringify leaves out a property whose
\* value is a function.
MutationCall(issueId, stateId) ==
  [op |-> "issueUpdate",
   variables |-> IF stateId = ProtoFn THEN [id |-> issueId]
                 ELSE [id |-> issueId, stateId |-> stateId]]

\* What came back for an upstream call, without its data.
Envelope(response) ==
  IF response.kind = "netfail" THEN response
  ELSE IF ~response.ok THEN response
  ELSE [kind |-> response.kind, ok |-> response.ok, status |-> response.status,
        errors |-> response.errors]

\* The request record once `response` has come back for its pending call.
Received(rec, response) == [rec EXCEPT !.replies = Append(@, Envelope(response))]

\* ------------------------------------------------------- handler fragments
\* Variant: the preflight branch is never taken.
IsPreflight_Never(method) == FALSE

\* request.method === 'OPTIONS'
IsPreflight(method) == method = "OPTIONS"

\* Variant: the credential check is left out.
NotConfigured_Never(key) == FALSE

\* !apiKey
NotConfigured(key) == ~Truthy(key)

\* Variant: the update route is matched on the path alone.
IsUpdateRoute_AnyMethod(method, path) == path = "/update"

\* url.pathname === '/update' && request.method === 'POST'
IsUpdateRoute(method, path) == path = "/update" /\ method = "POST"

\* Variant: the health route is registered under another path.
IsHealthRoute_OtherPath(method, path) == path = "/healthz" /\ method = "GET"

\* url.pathname === '/health' && request.method === 'GET'
IsHealthRoute(method, path) == path = "/health" /\ method = "GET"

\* Variant: && where the code has ||.
MissingRequired_Both(body) == ~Truthy(body.issueId) /\ ~Truthy(body.targetState)

\* Variant: a request that carries an order is rejected as invalid.
MissingRequired_RejectsOrder(body) ==
  ~Truthy(body.issueId) \/ ~Truthy(body.targetState) \/ Truthy(body.order)

\* !issueId || !targetState
MissingRequired(body) == ~Truthy(body.issueId) \/ ~Truthy(body.targetState)

\* Variant: the status list is consulted whether or not an id was supplied.
NeedsLookup_Always(body) == TRUE

\* let stateId = targetStateId; if (!stateId)
NeedsLookup(body) == ~Truthy(body.targetStateId)

\* Variant: the handler answers, and answers again.
Respond_Twice(rec, resp) ==
  [rec EXCEPT !.pc = "done", !.responses = Append(Append(@, resp), resp)]

\* return new Response(...)
Respond(rec, resp) == [rec EXCEPT !.pc = "done", !.responses = Append(@, resp)]

handleOptions == Response(204, corsHeaders, NoContent)

ConfigErrorResponse == Response(500, JsonHeaders, Json([error |-> MsgNotConfigured]))
HealthResponse == Response(200, JsonHeaders, Json([status |-> "ok"]))
\* Variant: the fallback response is built without headers.
NotFoundResponse_NoCors == Response(404, {}, Text("Not Found"))

NotFoundResponse == Response(404, corsHeaders, Text("Not Found"))
MissingFieldResponse == Response(400, JsonHeaders, Json([error |-> MsgMissing]))
StateNotFoundResponse(name) ==
  Response(404, JsonHeaders, Json([error |-> MsgStateNotFound(name)]))

\* Variant: the catch block reports the failure in a 200 response.
CatchError_As200(rec, message) ==
  Respond(rec, Response(200, JsonHeaders, Json([error |-> message])))

\* Variant: the catch block blames the caller for every failure.
CatchError_AsBadRequest(rec, message) ==
  Respond(rec, Response(400, JsonHeaders, Json([error |-> message])))

\* The catch block of handleUpdate.
CatchError(rec, message) ==
  Respond(rec, Response(500, JsonHeaders, Json([error |-> message])))

\* Variant: the mutation is posted a second time.
SendMutation_Twice(rec, stateId) ==
  [rec EXCEPT !.pc = "awaitMut", !.stateId = stateId,
              !.calls = Append(Append(@, MutationCall(rec.body.issueId, stateId)),
                               MutationCall(rec.body.issueId, stateId))]

\* updateIssueState(apiKey, issueId, stateId) up to its fetch.
SendMutation(rec, stateId) ==
  [rec EXCEPT !.pc = "awaitMut", !.stateId = stateId,
              !.calls = Append(@, MutationCall(rec.body.issueId, stateId))]

\* The part of an object that reading its property `name` depends on: the
\* request record keeps the local stateMapping at the one property that
\* handleUpdate reads from it.
ReadPart(props, name) == [n \in DOMAIN props \cap {name} |-> props[n]]

\* handleUpdate from `stateId = stateMapping[targetState]` to the next await.
ResolveWith(rec, stateMapping) ==
  LET stateId == Lookup(stateMapping, rec.body.targetState)
      got == [rec EXCEPT !.stateMapping = CacheOf(ReadPart(stateMapping, rec.body.targetState))]
  IN IF ~Truthy(stateId)
     THEN Respond([got EXCEPT !.stateId = stateId],
                  StateNotFoundResponse(rec.body.targetState))
     ELSE SendMutation(got, stateId)

\* Variant: the response is built from result.id, which the payload lacks.
UpdateResponse_WrongField(result) ==
  Response(200, JsonHeaders, Json([success |-> TRUE, issue |-> [id |-> Undefined]]))

\* The 200 response of handleUpdate.
UpdateResponse(result) ==
  Response(200, JsonHeaders, Json([success |-> TRUE, issue |-> result.issue]))

\* The order branch of handleUpdate: console.log when order is a non-empty array.
LogsOrder(order) == Truthy(order) /\ OrderLength(order) > 0

\* An upstream response that getStateMapping and updateIssueState accept: the
\* fetch resolved, response.ok holds and the JSON has no errors.
Accepted(response) ==
  response.kind = "response" /\ response.ok /\ ~Truthy(response.errors)

\* What one status list as a whole maps its names to: every name that
\* occurs in it, each with the id of the last status that carries it.
WholeMapping(list) ==
  [name \in {list[i].name : i \in DOMAIN list} |->
     list[CHOOSE i \in DOMAIN list :
            /\ list[i].name = name
            /\ \A j \in DOMAIN list : list[j].name = name => j <= i].id]

\* Variant: the new statuses are added to the object already cached.
CacheAfterList_Merge(cache, response) ==
  IF Accepted(response) THEN CacheOf(ForEachState(response.data, cache.props)) ELSE cache

\* Variant: the cache is set to {} before the response is examined.
CacheAfterList_EmptyOnFailure(cache, response) ==
  IF Accepted(response) THEN CacheOf(BuildIndex(response.data))
  ELSE CacheOf([n \in {} |-> Undefined])

\* stateCache once getStateMapping has dealt with `response`: the throws of
\* lines 43 and 49 come before the assignment of line 53.
CacheAfterList(cache, response) ==
  IF Accepted(response) THEN CacheOf(BuildIndex(response.data)) ELSE cache

\* ----------------------------------------------------------------- actions
\* fetch(request, env): the router, run to its return or to the first await
\* of handleUpdate.
Arrive(r, method, path) ==
  /\ req[r].pc \in {"idle", "done"}
  /\ \A q \in Slots : q < r => req[q].pc # "idle"
  /\ arrived < MaxRequests
  /\ arrived' = arrived + 1
  /\ LET rec == [IdleReq EXCEPT !.method = method, !.path = path]
     IN IF IsPreflight(method)
        THEN /\ req' = [req EXCEPT ![r] = Respond(rec, handleOptions)]
             /\ UNCHANGED <<stateCache, whole>>
        ELSE IF NotConfigured(apiKey)
        THEN /\ req' = [req EXCEPT ![r] = Respond(rec, ConfigErrorResponse)]
             /\ UNCHANGED <<stateCache, whole>>
        ELSE /\ stateCache' = NullCache
             /\ whole' = NullCache
             /\ IF IsUpdateRoute(method, path)
                THEN req' = [req EXCEPT ![r] = [rec EXCEPT !.pc = "parseBody"]]
                ELSE IF IsHealthRoute(method, path)
                THEN req' = [req EXCEPT ![r] = Respond(rec, HealthResponse)]
                ELSE req' = [req EXCEPT ![r] = Respond(rec, NotFoundResponse)]
  /\ UNCHANGED <<apiKey, nodes, resolved>>

\* handleUpdate from the completion of request.json() to its return or to the
\* fetch of getStateMapping or updateIssueState.
ParseBody(r, body) ==
  /\ req[r].pc = "parseBody"
  /\ LET rec == [req[r] EXCEPT !.body = body]
     IN req' = [req EXCEPT ![r] =
          IF body.kind = "malformed" THEN CatchError(rec, MsgSyntaxError)
          ELSE IF body.kind = "null" THEN CatchError(rec, MsgTypeError)
          ELSE IF MissingRequired(body)
          THEN Respond(rec, MissingFieldResponse)
          ELSE IF NeedsLookup(body)
          THEN IF ~stateCache.null
               THEN ResolveWith(rec, stateCache.props)
               ELSE [rec EXCEPT !.pc = "awaitList", !.calls = Append(@, ListCall)]
          ELSE SendMutation(rec, body.targetStateId)]
  /\ UNCHANGED <<apiKey, stateCache, arrived, nodes, resolved, whole>>

\* getStateMapping from the completion of its fetch, and handleUpdate after it.
ListResponse(r, response) ==
  /\ req[r].pc = "awaitList"
  /\ stateCache' = CacheAfterList(stateCache, response)
  /\ whole' = IF Accepted(response) THEN CacheOf(WholeMapping(response.data)) ELSE whole
  /\ LET rec == Received(req[r], response)
     IN req' = [req EXCEPT ![r] =
          IF response.kind = "netfail" THEN CatchError(rec, MsgNetwork)
          ELSE IF ~response.ok THEN CatchError(rec, MsgApiError(response.status))
          ELSE IF Truthy(response.errors)
          THEN CatchError(rec, MsgGraphQLError(response.errors))
          ELSE ResolveWith(rec, stateCache'.props)]
  /\ UNCHANGED <<apiKey, arrived, nodes, resolved>>

\* updateIssueState from the completion of its fetch, and handleUpdate after it.
MutResponse(r, response) ==
  /\ req[r].pc = "awaitMut"
  /\ LET rec == Received(req[r], response)
     IN req' = [req EXCEPT ![r] =
          IF response.kind = "netfail" THEN CatchError(rec, MsgNetwork)
          ELSE IF ~response.ok THEN CatchError(rec, MsgApiError(response.status))
          ELSE IF Truthy(response.errors)
          THEN CatchError(rec, MsgGraphQLError(response.errors))
          ELSE LET result == [kind |-> "payload", success |-> response.data.success,
                              issue |-> response.data.issue]
               IN Respond([rec EXCEPT !.result = result,
                                      !.orderLogged = LogsOrder(rec.body.order)],
                          UpdateResponse(result))]
  /\ UNCHANGED <<apiKey, stateCache, arrived, nodes, resolved, whole>>

Next ==
  \/ \E r \in Slots, method \in Methods, path \in Paths : Arrive(r, method, path)
  \/ \E r \in Slots, body \in Bodies : ParseBody(r, body)
  \/ \E r \in Slots, response \in ListResponses : ListResponse(r, response)
  \/ \E r \in Slots, response \in MutationResponses : MutResponse(r, response)

Spec == Init /\ [][Next]_vars

\* ------------------------------------------------- the resolver by itself
\* getStateMapping's index construction and handleUpdate's lookup, run on
\* every list of up to MaxNodes statuses.
IndexInit ==
  /\ apiKey = "lin_api_key"
  /\ stateCache = NullCache
  /\ req = [r \in Slots |-> IdleReq]
  /\ arrived = 0
  /\ nodes \in IndexLists
  /\ resolved = NotResolved
  /\ whole = NullCache

\* const states = data.data.workflowStates.nodes; stateCache = {}; forEach
IndexBuild ==
  /\ stateCache.null
  /\ stateCache' = CacheOf(BuildIndex(nodes))
  /\ UNCHANGED <<apiKey, req, arrived, nodes, resolved, whole>>

\* stateId = stateMapping[targetState]
IndexResolve(name) ==
  /\ ~stateCache.null
  /\ resolved' = [name |-> name, id |-> Lookup(stateCache.props, name)]
  /\ UNCHANGED <<apiKey, stateCache, req, arrived, nodes, whole>>

IndexNext ==
  \/ IndexBuild
  \/ \E name \in StatusNames \cup ProtoNames : IndexResolve(name)

IndexSpec == IndexInit /\ [][IndexNext]_vars

\* ------------------------------------------------------------- scheduling
\* What the runtime does for the request in slot r once it is in flight: the
\* body read completes, and every upstream fetch resolves or rejects.
Step(r) ==
  \/ \E body \in Bodies : ParseBody(r, body)
  \/ \E response \in ListResponses : ListResponse(r, response)
  \/ \E response \in MutationResponses : MutResponse(r, response)

FairSpec == Spec /\ \A r \in Slots : WF_vars(Step(r))

\* ================================================================= claims
Done(r) == req[r].pc = "done"
\* The response request r was answered with.
Resp(r) == req[r].responses[1]
IsUpdate(r) == req[r].method = "POST" /\ req[r].path = "/update"
IsHealth(r) == req[r].method = "GET" /\ req[r].path = "/health"
HasObjectBody(r) == req[r].body.kind = "object"
IsListCall(call) == call.op = "workflowStates"
IsMutationCall(call) == call.op = "issueUpdate"
NoMutationCall(r) == \A i \in DOMAIN req[r].calls : ~IsMutationCall(req[r].calls[i])
NoListCall(r) == \A i \in DOMAIN req[r].calls : ~IsListCall(req[r].calls[i])
\* Every upstream call of r so far was answered with a 2xx response.
NoTransportFailure(r) ==
  \A i \in DOMAIN req[r].replies : req[r].replies[i].kind = "response" /\ req[r].replies[i].ok
\* Every upstream call of r so far was answered 2xx and without an error list.
NoUpstreamFailure(r) ==
  \A i \in DOMAIN req[r].replies :
    /\ req[r].replies[i].kind = "response"
    /\ req[r].replies[i].ok
    /\ ~Truthy(req[r].replies[i].errors)
HealthOk(r) == Resp(r).status = 200 /\ Resp(r).body = [kind |-> "json", json |-> [status |-> "ok"]]
ConfigError(r) ==
  /\ Resp(r).status = 500
  /\ Resp(r).body = [kind |-> "json", json |-> [error |-> <<"LINEAR_API_KEY not configured">>]]

\* C1 as stated: a GET /health request is answered 200 {status: "ok"} whether
\* or not LINEAR_API_KEY is configured.
C1_HealthAlwaysOk == \A r \in Slots : IsHealth(r) => Done(r) /\ HealthOk(r)

\* C1 amended: a GET /health request is answered 200 {status: "ok"} when
\* LINEAR_API_KEY is configured, and with the 500 configuration error when it
\* is not.
C1_HealthOkWhenConfigured ==
  \A r \in Slots :
    IsHealth(r) => /\ Done(r)
                   /\ Truthy(apiKey) => HealthOk(r)
                   /\ ~Truthy(apiKey) => ConfigError(r)

C1_Witness == \E r \in Slots : IsHealth(r) /\ Done(r) /\ Truthy(apiKey) /\ HealthOk(r)

\* C2: with the credential unset, every request whose method is not OPTIONS
\* is answered 500 with the configuration-error JSON body, and no upstream
\* call is issued for it.
C2_UnsetKeyFailsFast ==
  \A r \in Slots :
    (~Truthy(apiKey) /\ req[r].pc # "idle" /\ req[r].method # "OPTIONS")
      => Done(r) /\ ConfigError(r) /\ req[r].calls = <<>>

C2_Witness ==
  \E r \in Slots : ~Truthy(apiKey) /\ IsUpdate(r) /\ Done(r) /\ Resp(r).status = 500

\* C3: an OPTIONS request to any path is answered 204 with an empty body and
\* the CORS headers, whether or not the credential is configured, and without
\* an upstream call.
C3_PreflightAlways204 ==
  \A r \in Slots :
    req[r].method = "OPTIONS"
      => /\ Done(r)
         /\ Len(req[r].responses) = 1
         /\ Resp(r).status = 204
         /\ Resp(r).body = [kind |-> "null"]
         /\ {<<"Access-Control-Allow-Origin", "*">>,
             <<"Access-Control-Allow-Methods", "GET, POST, OPTIONS">>,
             <<"Access-Control-Allow-Headers", "Content-Type">>} \subseteq Resp(r).headers
         /\ req[r].calls = <<>>

C3_Witness ==
  \E r \in Slots :
    /\ req[r].method = "OPTIONS" /\ req[r].path = "/update"
    /\ ~Truthy(apiKey)
    /\ Done(r) /\ Resp(r).status = 204

\* C4: a POST /update request (credential configured) whose JSON body lacks
\* issueId or lacks targetState is answered 400 whatever its other fields
\* are, targetStateId included, and no upstream call is issued for it.
C4_MissingFieldIs400 ==
  \A r \in Slots :
    ( /\ IsUpdate(r) /\ Truthy(apiKey) /\ HasObjectBody(r)
      /\ (req[r].body.issueId = Undefined \/ req[r].body.targetState = Undefined) )
      => Done(r) /\ Resp(r).status = 400 /\ req[r].calls = <<>>

C4_Witness ==
  \E r \in Slots :
    /\ IsUpdate(r) /\ HasObjectBody(r)
    /\ req[r].body.issueId = Undefined
    /\ req[r].body.targetState = "Todo"
    /\ req[r].body.targetStateId = "s9"
    /\ Done(r) /\ Resp(r).status = 400

\* The only upstream calls of r are mutations carrying its targetStateId.
OnlyMutationWithSuppliedId(r) ==
  /\ Len(req[r].calls) <= 1
  /\ \A i \in DOMAIN req[r].calls :
       req[r].calls[i] = [op |-> "issueUpdate",
                          variables |-> [id |-> req[r].body.issueId,
                                         stateId |-> req[r].body.targetStateId]]

\* C5 as stated: when the body of a POST /update request supplies
\* targetStateId, no status-list query is issued for it; its only upstream
\* call is the mutation carrying that targetStateId.
C5_SuppliedIdBypassesLookup ==
  \A r \in Slots :
    (HasObjectBody(r) /\ req[r].body.targetStateId # Undefined)
      => NoListCall(r) /\ OnlyMutationWithSuppliedId(r)

\* C5 amended: when the body of a POST /update request supplies a non-empty
\* (truthy) targetStateId, no status-list query is issued for it; its only
\* upstream call is the mutation carrying that targetStateId.
C5_TruthyIdBypassesLookup ==
  \A r \in Slots :
    (HasObjectBody(r) /\ Truthy(req[r].body.targetStateId))
      => NoListCall(r) /\ OnlyMutationWithSuppliedId(r)

C5_Witness ==
  \E r \in Slots :
    /\ HasObjectBody(r) /\ req[r].body.targetStateId = "s9"
    /\ Done(r) /\ Resp(r).status = 200
    /\ Len(req[r].calls) = 1 /\ IsMutationCall(req[r].calls[1])

\* The index r looked its targetState up in has no status of that name.
NameUnknown(r) ==
  /\ ~req[r].stateMapping.null
  /\ req[r].body.targetState \notin DOMAIN req[r].stateMapping.props

\* C6: a POST /update request without targetStateId whose targetState matches
\* no status name of the upstream list is answered 404, and no mutation call
\* is issued for it.
C6_UnknownNameIs404 ==
  \A r \in Slots :
    ( /\ IsUpdate(r) /\ HasObjectBody(r)
      /\ Truthy(req[r].body.issueId) /\ Truthy(req[r].body.targetState)
      /\ req[r].body.targetStateId = Undefined
      /\ NameUnknown(r) )
      => Done(r) /\ Resp(r).status = 404 /\ NoMutationCall(r)

\* C7: when the mutation call succeeds at transport level and carries no
\* error list, the 200 response's success flag and issue are the upstream's
\* success flag and issue payload, as received.
C7_SuccessPassedThrough ==
  \A r \in Slots :
    (Done(r) /\ req[r].result.kind = "payload" /\ Resp(r).status = 200)
      => /\ Resp(r).body.json.success = req[r].result.success
         /\ Resp(r).body.json.issue = req[r].result.issue

\* A valid move whose targetState resolves (or whose status id was supplied).
ValidResolvableMove(r) ==
  /\ IsUpdate(r) /\ Truthy(apiKey) /\ HasObjectBody(r)
  /\ Truthy(req[r].body.issueId) /\ Truthy(req[r].body.targetState)
  /\ NeedsLookup(req[r].body)
       => /\ ~req[r].stateMapping.null
          /\ req[r].body.targetState \in DOMAIN req[r].stateMapping.props

\* C8 as stated: a valid POST /update whose targetState resolves, with the
\* credential configured and no transport failure on any upstream call, is
\* answered 200 with issue.id equal to the request's issueId.
C8_ValidMoveReturnsIssue ==
  \A r \in Slots :
    (Done(r) /\ ValidResolvableMove(r) /\ NoTransportFailure(r))
      => /\ Resp(r).status = 200
         /\ Resp(r).body.json.issue.id = req[r].body.issueId

\* C8 amended: a valid POST /update whose targetState resolves, with the
\* credential configured and neither a transport failure nor an error list on
\* any upstream call, is answered 200 with the issue payload the upstream
\* returned for the mutation that carried the request's issueId; issue.id is
\* the id the upstream reports.
C8_ValidMoveReturnsUpstreamIssue ==
  \A r \in Slots :
    (Done(r) /\ ValidResolvableMove(r) /\ NoUpstreamFailure(r))
      => /\ Resp(r).status = 200
         /\ req[r].result.kind = "payload"
         /\ Resp(r).body.json.issue = req[r].result.issue
         /\ IsMutationCall(req[r].calls[Len(req[r].calls)])
         /\ req[r].calls[Len(req[r].calls)].variables.id = req[r].body.issueId

C8_Witness ==
  \E r \in Slots :
    /\ Done(r) /\ ValidResolvableMove(r) /\ NoUpstreamFailure(r)
    /\ NeedsLookup(req[r].body)
    /\ Len(req[r].replies) = 2
    /\ Resp(r).status = 200
    /\ Resp(r).body.json.issue.id = req[r].body.issueId

\* Two bodies that differ at most in the order field.
SameButOrder(a, b) ==
  /\ a.kind = "object" /\ b.kind = "object"
  /\ a.issueId = b.issueId
  /\ a.targetState = b.targetState
  /\ a.targetStateId = b.targetStateId

\* Two requests that have met the same upstream behaviour so far.
SameUpstream(r1, r2) ==
  /\ req[r1].replies = req[r2].replies
  /\ req[r1].stateMapping = req[r2].stateMapping
  /\ req[r1].result = req[r2].result

\* C9: two POST /update requests that differ only in the presence or content
\* of order and meet the same upstream behaviour are at the same point of
\* their handling, have issued the same upstream calls and have the same
\* response (status and body); so order never causes a failure.
C9_OrderIsIgnored ==
  \A r1, r2 \in Slots :
    (IsUpdate(r1) /\ IsUpdate(r2) /\ SameButOrder(req[r1].body, req[r2].body)
       /\ SameUpstream(r1, r2))
      => /\ req[r1].pc = req[r2].pc
         /\ req[r1].calls = req[r2].calls
         /\ req[r1].responses = req[r2].responses

C9_Witness ==
  \E r1, r2 \in Slots :
    /\ SameButOrder(req[r1].body, req[r2].body)
    /\ req[r1].body.order = Undefined /\ req[r2].body.order = "[i2,i1]"
    /\ Done(r1) /\ Done(r2)
    /\ Resp(r1).status = 200 /\ Resp(r2) = Resp(r1)
    /\ req[r2].orderLogged

\* The positions of `nodes` that hold a status called name.
Occurrences(name) == {i \in DOMAIN nodes : nodes[i].name = name}
LastOccurrence(name) == CHOOSE i \in Occurrences(name) : \A j \in Occurrences(name) : j <= i

\* C10: the index built from a status list maps every name of the list to the
\* id of the last status of that name, and holds no other name; resolving a
\* name of the list yields that id.
C10_LastWriteWins ==
  ~stateCache.null
    => /\ \A name \in StatusNames :
            IF Occurrences(name) = {}
            THEN name \notin DOMAIN stateCache.props
            ELSE /\ name \in DOMAIN stateCache.props
                 /\ stateCache.props[name] = nodes[LastOccurrence(name)].id
       /\ (resolved.name \in StatusNames /\ Occurrences(resolved.name) # {})
            => resolved.id = nodes[LastOccurrence(resolved.name)].id

C10_Witness ==
  \E i, j \in DOMAIN nodes :
    /\ i < j
    /\ nodes[i].name = nodes[j].name /\ nodes[i].id # nodes[j].id
    /\ j = LastOccurrence(nodes[j].name)
    /\ resolved.name = nodes[j].name
    /\ resolved.id = nodes[j].id

\* ------------------------------------------------------------ C11 .. C20
\* The headers of a response other than Content-Type.
CorsOf(resp) == {h \in resp.headers : h[1] # "Content-Type"}
ThreeCorsHeaders ==
  {<<"Access-Control-Allow-Origin", "*">>,
   <<"Access-Control-Allow-Methods", "GET, POST, OPTIONS">>,
   <<"Access-Control-Allow-Headers", "Content-Type">>}

\* C11: every response the worker produces, on every path, carries the same
\* three CORS headers: origin *, methods GET, POST, OPTIONS, allowed header
\* Content-Type.
C11_EveryResponseHasCors ==
  \A r \in Slots : \A i \in DOMAIN req[r].responses :
    CorsOf(req[r].responses[i]) = ThreeCorsHeaders

C11_Witness ==
  \E r1, r2 \in Slots :
    /\ Done(r1) /\ Resp(r1).status = 404 /\ Resp(r1).body.kind = "text"
    /\ Done(r2) /\ Resp(r2).status = 500 /\ Len(req[r2].replies) = 2
    /\ CorsOf(Resp(r1)) = ThreeCorsHeaders /\ CorsOf(Resp(r2)) = ThreeCorsHeaders

\* A request that is neither a preflight nor one of the two routes.
Unrouted(r) ==
  /\ req[r].pc # "idle"
  /\ req[r].method # "OPTIONS"
  /\ ~IsUpdate(r) /\ ~IsHealth(r)

\* C12: with the credential configured, a non-OPTIONS request that is neither
\* POST /update nor GET /health is answered 404 with the text 'Not Found';
\* its body is never read and no upstream call is issued.
C12_UnroutedIs404 ==
  \A r \in Slots :
    (Truthy(apiKey) /\ Unrouted(r))
      => /\ Done(r)
         /\ Resp(r).status = 404
         /\ Resp(r).body = [kind |-> "text", text |-> "Not Found"]
         /\ req[r].body = [kind |-> "unread"]
         /\ req[r].calls = <<>>

C12_Witness ==
  \E r \in Slots :
    /\ Truthy(apiKey) /\ req[r].method = "GET" /\ req[r].path = "/update"
    /\ Done(r) /\ Resp(r).status = 404

\* Request r looked its targetState up in an index.
ResolvedByName(r) == ~req[r].stateMapping.null

\* C13: every POST /update request that resolves its status by name uses an
\* index built from a status-list query issued while handling that request.
C13_IndexFromOwnQuery ==
  \A r \in Slots : ResolvedByName(r) => ~NoListCall(r)

\* C14: whenever the status index can be read it is unbuilt, or it is the
\* complete mapping of one status-list response: every name of that list
\* with the id of its last status, and nothing else.
C14_IndexIsWholeOrUnbuilt ==
  \/ stateCache.null
  \/ /\ ~whole.null
     /\ DOMAIN stateCache.props = DOMAIN whole.props
     /\ \A name \in DOMAIN whole.props : stateCache.props[name] = whole.props[name]

\* Two requests queried the list at once and the index in place is the one of
\* the response that came last.
C14_Witness ==
  /\ ~stateCache.null /\ DOMAIN whole.props # {}
  /\ \A r \in Slots : ~NoListCall(r) /\ Len(req[r].replies) >= 1
  /\ \E r \in Slots :
       /\ ResolvedByName(r)
       /\ req[r].body.targetState \in StatusNames
       /\ req[r].stateMapping.props # ReadPart(stateCache.props, req[r].body.targetState)

ListCallsOf(r) == {i \in DOMAIN req[r].calls : IsListCall(req[r].calls[i])}
MutationCallsOf(r) == {i \in DOMAIN req[r].calls : IsMutationCall(req[r].calls[i])}
\* The reply to the i-th upstream call of r reports a failure.
FailedReply(r, i) ==
  \/ req[r].replies[i].kind = "netfail"
  \/ ~req[r].replies[i].ok
  \/ Truthy(req[r].replies[i].errors)

\* C15: one request issues at most one status-list query and at most one
\* mutation call, each only after the one before it was answered, and none
\* after an upstream call failed.
C15_NoRetry ==
  \A r \in Slots :
    /\ Cardinality(ListCallsOf(r)) <= 1
    /\ Cardinality(MutationCallsOf(r)) <= 1
    /\ Len(req[r].calls) <= Len(req[r].replies) + 1
    /\ \A i \in DOMAIN req[r].replies :
         FailedReply(r, i) => Done(r) /\ Len(req[r].calls) = i

C15_Witness ==
  \E r \in Slots :
    /\ Done(r) /\ Len(req[r].calls) = 2 /\ Len(req[r].replies) = 2
    /\ FailedReply(r, 2)

\* C16: when an upstream call of a POST /update request fails (no response,
\* a non-2xx response, or an error list), the request is answered 500 with a
\* JSON {error: message} body; a failed status-list query is followed by no
\* mutation call.
C16_UpstreamFailureIs500 ==
  \A r \in Slots : \A i \in DOMAIN req[r].replies :
    FailedReply(r, i)
      => /\ Done(r)
         /\ Resp(r).status = 500
         /\ Resp(r).body.kind = "json"
         /\ DOMAIN Resp(r).body.json = {"error"}
         /\ IsListCall(req[r].calls[i]) => NoMutationCall(r)

C16_Witness ==
  \E r1, r2 \in Slots :
    /\ Done(r1) /\ Len(req[r1].replies) = 1 /\ IsListCall(req[r1].calls[1])
    /\ FailedReply(r1, 1)
    /\ Done(r2) /\ Len(req[r2].replies) = 2 /\ FailedReply(r2, 2)
    /\ Resp(r1).status = 500 /\ Resp(r2).status = 500

InFlight(r) == req[r].pc \in {"parseBody", "awaitList", "awaitMut"}

\* The terminal state the answered request r ended in.
PreflightOk(r) == req[r].method = "OPTIONS" /\ Resp(r).status = 204
ConfigErrorEnd(r) == req[r].method # "OPTIONS" /\ ~Truthy(apiKey) /\ Resp(r).status = 500
NotFoundEnd(r) ==
  /\ Truthy(apiKey) /\ Unrouted(r)
  /\ Resp(r).status = 404 /\ Resp(r).body.kind = "text"
RespondEnd(r) ==
  /\ Truthy(apiKey) /\ (IsUpdate(r) \/ IsHealth(r))
  /\ Resp(r).body.kind = "json"

\* A request is answered once, when its handling ends, in one terminal state.
AnsweredOnce ==
  \A r \in Slots :
    /\ Len(req[r].responses) = IF Done(r) THEN 1 ELSE 0
    /\ Done(r) => Cardinality({t \in {"PREFLIGHT_OK", "CONFIG_ERROR", "NOT_FOUND", "RESPOND"} :
                     \/ t = "PREFLIGHT_OK" /\ PreflightOk(r)
                     \/ t = "CONFIG_ERROR" /\ ConfigErrorEnd(r)
                     \/ t = "NOT_FOUND" /\ NotFoundEnd(r)
                     \/ t = "RESPOND" /\ RespondEnd(r)}) = 1

\* C17: every request is answered exactly once and ends in exactly one of
\* PREFLIGHT_OK, CONFIG_ERROR, NOT_FOUND or RESPOND; given that its body read
\* and each of its upstream calls complete, a request in flight is
\* eventually answered.
C17_EveryRequestAnsweredOnce ==
  /\ []AnsweredOnce
  /\ \A r \in Slots : InFlight(r) ~> Done(r)

C17_Witness ==
  \E r \in Slots :
    /\ Done(r) /\ Len(req[r].replies) = 2 /\ Len(req[r].responses) = 1
    /\ RespondEnd(r)

\* C18: every mutation call of a POST /update request carries the request's
\* issueId and a status id: the request's targetStateId when that is
\* supplied (non-empty), otherwise the id the status index maps the
\* request's targetState to, the index having been obtained before the call.
C18_MutationCarriesResolvedId ==
  \A r \in Slots : \A i \in MutationCallsOf(r) :
    /\ HasObjectBody(r)
    /\ req[r].calls[i].variables.id = req[r].body.issueId
    /\ "stateId" \in DOMAIN req[r].calls[i].variables
    /\ IF Truthy(req[r].body.targetStateId)
       THEN req[r].calls[i].variables.stateId = req[r].body.targetStateId
       ELSE /\ ResolvedByName(r)
            /\ req[r].body.targetState \in DOMAIN req[r].stateMapping.props
            /\ req[r].calls[i].variables.stateId
                 = req[r].stateMapping.props[req[r].body.targetState]

\* The status-list query of r has just been answered with a failure.
ListQueryFails(r) ==
  /\ req[r].pc = "awaitList"
  /\ Len(req'[r].replies) = 1
  /\ \/ req'[r].replies[1].kind = "netfail"
     \/ ~req'[r].replies[1].ok
     \/ Truthy(req'[r].replies[1].errors)

\* The status-list query of r has just been answered 2xx without errors.
ListQuerySucceeds(r) ==
  /\ req[r].pc = "awaitList"
  /\ Len(req'[r].replies) = 1
  /\ req'[r].replies[1].kind = "response"
  /\ req'[r].replies[1].ok
  /\ ~Truthy(req'[r].replies[1].errors)

\* C19: a status-list query that fails leaves stateCache exactly as it was,
\* and an index is installed only when a status-list query is answered 2xx
\* without an error list.
C19_FailedQueryInstallsNothing ==
  [][ /\ \A r \in Slots : ListQueryFails(r) => stateCache' = stateCache
      /\ (stateCache' # stateCache /\ ~stateCache'.null)
           => \E r \in Slots : ListQuerySucceeds(r) ]_vars

\* A request whose status-list query failed, beside an index that another
\* request's query installed.
C19_Witness ==
  \E r \in Slots :
    /\ Done(r) /\ Len(req[r].replies) = 1 /\ IsListCall(req[r].calls[1])
    /\ FailedReply(r, 1)
    /\ ~stateCache.null /\ DOMAIN stateCache.props # {}

NoFieldsBody(r) == req[r].body.kind \in {"malformed", "null", "primitive"}

\* C20 as stated: a POST /update request whose body is no JSON object
\* (malformed JSON, or a JSON value without fields such as null) is answered
\* 500 with a JSON {error: message} body, and no upstream call is issued.
C20_UnparsableBodyIs500 ==
  \A r \in Slots :
    NoFieldsBody(r)
      => /\ Done(r) /\ Resp(r).status = 500
         /\ Resp(r).body.kind = "json" /\ DOMAIN Resp(r).body.json = {"error"}
         /\ req[r].calls = <<>>

\* C20 amended: a POST /update request whose body is malformed JSON or the
\* JSON value null is answered 500 with a JSON {error: message} body, not
\* 400, and no upstream call is issued; a JSON number, string or boolean is
\* answered 400 as a body that lacks the required fields.
C20_MalformedOrNullIs500 ==
  \A r \in Slots :
    /\ req[r].body.kind \in {"malformed", "null"}
         => /\ Done(r) /\ Resp(r).status = 500
            /\ Resp(r).body.kind = "json" /\ DOMAIN Resp(r).body.json = {"error"}
            /\ req[r].calls = <<>>
    /\ req[r].body.kind = "primitive"
         => Done(r) /\ Resp(r).status = 400 /\ req[r].calls = <<>>

C20_Witness ==
  \E r1, r2 \in Slots :
    /\ req[r1].body.kind = "malformed" /\ Done(r1) /\ Resp(r1).status = 500
    /\ req[r2].body.kind = "null" /\ Done(r2) /\ Resp(r2).status = 500
====
